---- MODULE Spec2Model ----
(***************************************************************************)
(* bcl/air-sensors: the PMSA003i particle driver and the SGP30 gas driver  *)
(* as one state machine.  Every public operation of a driver is one        *)
(* action; its bus outcomes, file-write outcome and arguments are inputs   *)
(* drawn from small sets.  `ret` and `log` hold what the last call         *)
(* returned and what it did on the bus, the clock and the file system.     *)
(***************************************************************************)
EXTENDS Integers, Sequences, FiniteSets, TLC

VARIABLES
    dev,     \* the *sgp30.Dev the caller holds: Dev record, has = FALSE when New gave nil
    file,    \* the calibration file at the one path the model knows
    now,     \* the clock, in ticks of the ReadAirQuality delay (10 ms)
    pdev,    \* TRUE when the caller holds a *pmsa003i.Dev
    ret,     \* what the last call returned
    log      \* what the last call did, in order: bus transactions, sleep, clock read, file write

vars == <<dev, file, now, pdev, ret, log>>

---------------------------------------------------------------------------
\* Bounds of the model
MaxTime == 4        \* the clock stops here
MaxInterval == 2    \* baselineInterval is 0 or MaxInterval ticks

\* Program constants
SGP30_ADDR == 88
PMSA003I_ADDR == 18
CRC8_Poly == 49
CRC8_Init == 255
CRC8_XorOut == 0
SleepTicks == 1
StartWord == 16973
ChecksumOffset == 30

---------------------------------------------------------------------------
\* Fixed-width arithmetic

RECURSIVE XorN(_, _, _)
XorN(a, b, n) ==
    IF n = 0 THEN 0
    ELSE (((a % 2) + (b % 2)) % 2) + 2 * XorN(a \div 2, b \div 2, n - 1)

Xor8(a, b) == XorN(a, b, 8)

U8(x) == x % 256
U16(x) == x % 65536

\* A uint64 as four 16-bit limbs, least significant first (TLC's integers are
\* 32 bits wide).
RECURSIVE AddLimbs(_, _, _)
AddLimbs(a, b, carry) ==
    IF a = <<>> THEN <<>>
    ELSE LET s == Head(a) + Head(b) + carry
         IN  <<s % 65536>> \o AddLimbs(Tail(a), Tail(b), s \div 65536)

Add64(a, b) == AddLimbs(a, b, 0)

\* uint64(w) << bits, for a 16-bit w
Limb(w, bits, k) ==
    IF k = bits \div 16 THEN (w * (2 ^ (bits % 16))) % 65536
    ELSE IF k = bits \div 16 + 1 THEN (w * (2 ^ (bits % 16))) \div 65536
    ELSE 0

Shl64(w, bits) == <<Limb(w, bits, 0), Limb(w, bits, 1), Limb(w, bits, 2), Limb(w, bits, 3)>>

\* A Go slice: its backing array up to the capacity, and its length.
Slice(arr, n) == [arr |-> arr, len |-> n]
Lit(bytes) == Slice(bytes, Len(bytes))
Cap(s) == Len(s.arr)
\* s[lo:hi] is legal up to the capacity, not the length
CanSlice(s, lo, hi) == 0 <= lo /\ lo <= hi /\ hi <= Cap(s)
Sub(s, lo, hi) == SubSeq(s.arr, lo + 1, hi)

\* word (both packages): uint16(data[i])<<8 + uint16(data[i+1]), data a byte
\* sequence, i a 0-based offset
word(data, i) == U16(data[i + 1] * 256 + data[i + 2])

---------------------------------------------------------------------------
\* CRC-8 of the gas sensor (github.com/sigurn/crc8 with the CRC8_SGP30 parameters)

RECURSIVE ShiftPoly(_, _)
ShiftPoly(crc, i) ==
    IF i = 0 THEN crc
    ELSE ShiftPoly(IF crc >= 128 THEN Xor8(U8(crc * 2), CRC8_Poly) ELSE U8(crc * 2), i - 1)

CRC8_SGP30 == [n \in 0..255 |-> ShiftPoly(n, 8)]

RECURSIVE Update(_, _)
Update(crc, data) ==
    IF data = <<>> THEN crc
    ELSE Update(CRC8_SGP30[Xor8(crc, Head(data))], Tail(data))

Checksum(data) == Xor8(Update(CRC8_Init, data), CRC8_XorOut)

checkCRC8MutAccept(data) == TRUE
checkCRC8(data) == Checksum(data) = 0

---------------------------------------------------------------------------
\* What a call leaves behind

\* one d.i2c.Tx(w, r): the bytes written, the length of the read buffer, and the
\* bus's outcome o = [ok, r]
TxEv(addr, w, rlen, o) ==
    [kind |-> "tx", addr |-> addr, w |-> w, rlen |-> rlen, ok |-> o.ok, r |-> o.r]
SleepEv == [kind |-> "sleep"]
SinceEv(v) == [kind |-> "since", v |-> v]
\* one ioutil.WriteFile: the bytes handed over and how many reached the file
\* (-1: the file could not be opened)
WriteEv(data, n) == [kind |-> "write", data |-> data, n |-> n]

\* a call's outcome: its events, its return values, its error ("nil" for none)
R(evs, val, err) == [log |-> evs, val |-> val, err |-> err, panic |-> FALSE]
\* a call that ended in a run-time panic
Panicked(evs) == [log |-> evs, val |-> <<>>, err |-> "nil", panic |-> TRUE]

Zero64 == <<0, 0, 0, 0>>
ZeroBaseline == <<0, 0, 0, 0, 0, 0>>

NoDev == [has |-> FALSE, baselineFile |-> "", baselineInterval |-> 0, lastSave |-> 0]
NoFile == [exists |-> FALSE, data |-> <<>>]
FileOf(bytes) == [exists |-> TRUE, data |-> bytes]

---------------------------------------------------------------------------
\* SGP30 operations, as functions of their inputs

SerialValue(data) ==
    Add64(Add64(Shl64(word(data, 0), 24), Shl64(word(data, 3), 16)), Shl64(word(data, 6), 0))

GetSerialNumberR(o) ==
    LET evs == <<TxEv(SGP30_ADDR, <<54, 130>>, 9, o)>>
        data == o.r
    IN  IF ~o.ok THEN R(evs, Zero64, "Error while reading serial number")
        ELSE IF ~checkCRC8(SubSeq(data, 1, 3))
             THEN R(evs, Zero64, "serial number word 1 CRC8 failed")
        ELSE IF ~checkCRC8(SubSeq(data, 4, 6))
             THEN R(evs, Zero64, "serial number word 2 CRC8 failed")
        ELSE IF ~checkCRC8(SubSeq(data, 7, 9))
             THEN R(evs, Zero64, "serial number word 3 CRC8 failed")
        ELSE R(evs, SerialValue(data), "nil")

GetFeaturesR(o) ==
    LET evs == <<TxEv(SGP30_ADDR, <<32, 47>>, 3, o)>>
        data == o.r
    IN  IF ~o.ok THEN R(evs, <<0, 0>>, "Error while reading features")
        ELSE IF ~checkCRC8(SubSeq(data, 1, 3))
             THEN R(evs, <<0, 0>>, "features CRC8 failed")
        ELSE R(evs, <<data[1], data[2]>>, "nil")

StartMeasurementsRMutRetry(o) ==
    LET tx == TxEv(SGP30_ADDR, <<32, 3>>, 0, o)
    IN  IF ~o.ok THEN R(<<tx, tx>>, <<>>, "Error starting air quality measurements")
        ELSE R(<<tx>>, <<>>, "nil")
StartMeasurementsR(o) ==
    LET evs == <<TxEv(SGP30_ADDR, <<32, 3>>, 0, o)>>
    IN  IF ~o.ok THEN R(evs, <<>>, "Error starting air quality measurements")
        ELSE R(evs, <<>>, "nil")

ReadBaselineRMutGroupsSwapped(o) ==
    LET evs == <<TxEv(SGP30_ADDR, <<32, 21>>, 6, o)>>
        data == o.r
    IN  IF ~o.ok THEN R(evs, ZeroBaseline, "Error while reading baseline")
        ELSE IF ~checkCRC8(SubSeq(data, 1, 3))
             THEN R(evs, ZeroBaseline, "baseline word 1 CRC8 failed")
        ELSE IF ~checkCRC8(SubSeq(data, 4, 6))
             THEN R(evs, ZeroBaseline, "baseline word 2 CRC8 failed")
        ELSE R(evs, SubSeq(data, 4, 6) \o SubSeq(data, 1, 3), "nil")
ReadBaselineR(o) ==
    LET evs == <<TxEv(SGP30_ADDR, <<32, 21>>, 6, o)>>
        data == o.r
    IN  IF ~o.ok THEN R(evs, ZeroBaseline, "Error while reading baseline")
        ELSE IF ~checkCRC8(SubSeq(data, 1, 3))
             THEN R(evs, ZeroBaseline, "baseline word 1 CRC8 failed")
        ELSE IF ~checkCRC8(SubSeq(data, 4, 6))
             THEN R(evs, ZeroBaseline, "baseline word 2 CRC8 failed")
        ELSE R(evs, data, "nil")

\* the bytes SetBaseline sends: 0x20 0x1e, then baseline[3:6], then baseline[0:3]
SetBaselineDataMutNoSwap(baseline) ==
    <<32, 30>> \o Sub(baseline, 0, 3) \o Sub(baseline, 3, 6)
SetBaselineData(baseline) ==
    <<32, 30>> \o Sub(baseline, 3, 6) \o Sub(baseline, 0, 3)

\* baseline is a slice; oSM and oSB are the bus's outcomes of the two transactions
SetBaselineRMutSecondGroupUnchecked(baseline, oSM, oSB) ==
    IF ~CanSlice(baseline, 0, 3) THEN Panicked(<<>>)
    ELSE IF ~checkCRC8(Sub(baseline, 0, 3))
         THEN R(<<>>, <<>>, "set baseline word 1 CRC8 failed")
    ELSE IF ~CanSlice(baseline, 3, 6) THEN Panicked(<<>>)
    ELSE LET sm == StartMeasurementsR(oSM)
             evs == sm.log \o <<TxEv(SGP30_ADDR, SetBaselineData(baseline), 0, oSB)>>
         IN  IF ~oSB.ok THEN R(evs, <<>>, "Error while setting baseline")
             ELSE R(evs, <<>>, "nil")
SetBaselineR(baseline, oSM, oSB) ==
    IF ~CanSlice(baseline, 0, 3) THEN Panicked(<<>>)
    ELSE IF ~checkCRC8(Sub(baseline, 0, 3))
         THEN R(<<>>, <<>>, "set baseline word 1 CRC8 failed")
    ELSE IF ~CanSlice(baseline, 3, 6) THEN Panicked(<<>>)
    ELSE IF ~checkCRC8(Sub(baseline, 3, 6))
         THEN R(<<>>, <<>>, "set baseline word 2 CRC8 failed")
    ELSE LET sm == StartMeasurementsR(oSM)   \* its error is dropped
             evs == sm.log \o <<TxEv(SGP30_ADDR, SetBaselineData(baseline), 0, oSB)>>
         IN  IF ~oSB.ok THEN R(evs, <<>>, "Error while setting baseline")
             ELSE R(evs, <<>>, "nil")

\* ioutil.ReadFile's result as a slice: the contents, in a buffer that is
\* allocated zeroed and at least bytes.MinRead (512) bytes larger than the file
ReadFile(f) == Slice(f.data \o ZeroBaseline, Len(f.data))

\* New's outcome: R's fields and the handle returned (NoDev for nil)
NewRMutNoFailFast(oSN, oSM, oSB, baselineFile, baselineInterval, f, t) ==
    LET sn == GetSerialNumberR(oSN)
        d1 == [has |-> TRUE, baselineFile |-> baselineFile,
               baselineInterval |-> baselineInterval, lastSave |-> t]
    IN  IF sn.err # "nil" /\ (baselineFile = "" \/ ~f.exists) THEN R(sn.log, NoDev, sn.err)
        ELSE IF baselineFile # "" /\ f.exists
             THEN LET sb == SetBaselineR(ReadFile(f), oSM, oSB)
                  IN  IF sb.panic THEN [Panicked(sn.log \o sb.log) EXCEPT !.val = NoDev]
                      ELSE IF sb.err # "nil" \/ sn.err # "nil"
                           THEN R(sn.log \o sb.log, NoDev, "error")
                      ELSE R(sn.log \o sb.log, d1, "nil")
        ELSE R(sn.log, [d1 EXCEPT !.lastSave = IF baselineFile = "" THEN 0 ELSE t], "nil")
NewR(oSN, oSM, oSB, baselineFile, baselineInterval, f, t) ==
    LET sn == GetSerialNumberR(oSN)
        d0 == [has |-> TRUE, baselineFile |-> "", baselineInterval |-> 0, lastSave |-> 0]
        d1 == [has |-> TRUE, baselineFile |-> baselineFile,
               baselineInterval |-> baselineInterval, lastSave |-> t]
    IN  IF sn.err # "nil" THEN R(sn.log, NoDev, sn.err)
        ELSE IF baselineFile # ""
             THEN IF f.exists
                  THEN LET sb == SetBaselineR(ReadFile(f), oSM, oSB)
                       IN  IF sb.panic THEN [Panicked(sn.log \o sb.log) EXCEPT !.val = NoDev]
                           ELSE IF sb.err # "nil"
                                THEN R(sn.log \o sb.log, NoDev, sb.err)
                           ELSE R(sn.log \o sb.log, d1, "nil")
                  ELSE R(sn.log, d1, "nil")
        ELSE R(sn.log, d0, "nil")

\* the autosave condition: len(d.baselineFile) > 0 && time.Since(d.lastSave) >= d.baselineInterval
AutosaveDueMutStrict(baselineFile, since, interval) ==
    baselineFile # "" /\ since > interval
AutosaveDue(baselineFile, since, interval) ==
    baselineFile # "" /\ since >= interval

\* ioutil.WriteFile(name, data, 0644) where n bytes reach the file: the file is
\* opened with O_TRUNC, so a failed write leaves a prefix; n = -1 is a failed open
WriteFile(f, data, n) == IF n < 0 THEN f ELSE FileOf(SubSeq(data, 1, n))

\* the handle after the autosave branch is entered at time t
StampMutResetsInterval(d, t) == [d EXCEPT !.lastSave = t, !.baselineInterval = 0]
Stamp(d, t) == [d EXCEPT !.lastSave = t]

\* an outcome that also carries the handle, the file and the clock the call leaves
Out(r, d, f, t) ==
    [log |-> r.log, val |-> r.val, err |-> r.err, panic |-> r.panic,
     dev |-> d, file |-> f, now |-> t]

\* The autosave branch of ReadAirQuality and the return after it, entered at time
\* t with the events evs so far and the decoded values vals: the stamp, the
\* Read-Baseline (bus outcome oB) and the write (outcome n).
AutosaveMutSurfaceWriteError(d, f, t, evs, vals, oB, n) ==
    LET rb == ReadBaselineR(oB)
    IN  IF rb.err # "nil"
        THEN Out(R(evs \o rb.log, <<0, 0>>, "Error while reading baseline"), Stamp(d, t), f, t)
        ELSE IF n # Len(rb.val)
        THEN Out(R(evs \o rb.log \o <<WriteEv(rb.val, n)>>, <<0, 0>>, "Error while writing baseline"),
                 Stamp(d, t), WriteFile(f, rb.val, n), t)
        ELSE Out(R(evs \o rb.log \o <<WriteEv(rb.val, n)>>, vals, "nil"),
                 Stamp(d, t), WriteFile(f, rb.val, n), t)
AutosaveMutValuesOfBaseline(d, f, t, evs, vals, oB, n) ==
    LET rb == ReadBaselineR(oB)
    IN  IF rb.err # "nil"
        THEN Out(R(evs \o rb.log, <<0, 0>>, "Error while reading baseline"), Stamp(d, t), f, t)
        ELSE Out(R(evs \o rb.log \o <<WriteEv(rb.val, n)>>,
                   <<word(rb.val, 0), word(rb.val, 3)>>, "nil"),
                 Stamp(d, t), WriteFile(f, rb.val, n), t)
Autosave(d, f, t, evs, vals, oB, n) ==
    LET rb == ReadBaselineR(oB)
    IN  IF rb.err # "nil"
        THEN Out(R(evs \o rb.log, <<0, 0>>, "Error while reading baseline"), Stamp(d, t), f, t)
        ELSE Out(R(evs \o rb.log \o <<WriteEv(rb.val, n)>>, vals, "nil"),
                 Stamp(d, t), WriteFile(f, rb.val, n), t)

\* ReadAirQuality on handle d with file f at time t; o1, o2, oB are the bus's
\* outcomes of the request, the read and the Read-Baseline, n the write's outcome.
ReadAirQualityRMutRequestErrorIgnored(d, f, t, o1, o2, oB, n) ==
    LET tx1 == TxEv(SGP30_ADDR, <<32, 8>>, 0, o1)
        tx2 == TxEv(SGP30_ADDR, <<>>, 6, o2)
        t2 == t + SleepTicks
        data == o2.r
        evs2 == <<tx1, SleepEv, tx2>>
        since == t2 - d.lastSave
        evs3 == IF d.baselineFile # "" THEN evs2 \o <<SinceEv(since)>> ELSE evs2
        vals == <<word(data, 0), word(data, 3)>>
    IN  IF ~o2.ok
        THEN Out(R(evs2, <<0, 0>>, "Error while reading air quality"), d, f, t2)
        ELSE IF ~checkCRC8(SubSeq(data, 1, 3))
        THEN Out(R(evs2, <<0, 0>>, "read air quality word 1 CRC8 failed"), d, f, t2)
        ELSE IF ~checkCRC8(SubSeq(data, 4, 6))
        THEN Out(R(evs2, <<0, 0>>, "read air quality word 2 CRC8 failed"), d, f, t2)
        ELSE IF AutosaveDue(d.baselineFile, since, d.baselineInterval)
        THEN Autosave(d, f, t2, evs3, vals, oB, n)
        ELSE Out(R(evs3, vals, "nil"), d, f, t2)
ReadAirQualityR(d, f, t, o1, o2, oB, n) ==
    LET tx1 == TxEv(SGP30_ADDR, <<32, 8>>, 0, o1)
        tx2 == TxEv(SGP30_ADDR, <<>>, 6, o2)
        t2 == t + SleepTicks
        data == o2.r
        evs2 == <<tx1, SleepEv, tx2>>
        since == t2 - d.lastSave
        \* time.Since is evaluated only when a path is configured (&& short-circuits)
        evs3 == IF d.baselineFile # "" THEN evs2 \o <<SinceEv(since)>> ELSE evs2
        vals == <<word(data, 0), word(data, 3)>>
    IN  IF ~o1.ok
        THEN Out(R(<<tx1>>, <<0, 0>>, "Error while requesting air quality"), d, f, t)
        ELSE IF ~o2.ok
        THEN Out(R(evs2, <<0, 0>>, "Error while reading air quality"), d, f, t2)
        ELSE IF ~checkCRC8(SubSeq(data, 1, 3))
        THEN Out(R(evs2, <<0, 0>>, "read air quality word 1 CRC8 failed"), d, f, t2)
        ELSE IF ~checkCRC8(SubSeq(data, 4, 6))
        THEN Out(R(evs2, <<0, 0>>, "read air quality word 2 CRC8 failed"), d, f, t2)
        ELSE IF AutosaveDue(d.baselineFile, since, d.baselineInterval)
        THEN Autosave(d, f, t2, evs3, vals, oB, n)
        ELSE Out(R(evs3, vals, "nil"), d, f, t2)

---------------------------------------------------------------------------
\* PMSA003i operations

\* word of package pmsa003i: uint16(data[i])<<8 + uint16(data[i+1])
pmsa003i_wordMutLittleEndian(data, i) == U16(data[i + 1] + data[i + 2] * 256)
pmsa003i_word(data, i) == U16(data[i + 1] * 256 + data[i + 2])

RECURSIVE SumBytesMutU8(_, _)
SumBytesMutU8(data, k) ==
    IF k <= 0 THEN 0 ELSE U8(SumBytesMutU8(data, k - 1) + data[k])
RECURSIVE SumBytes(_, _)
\* the uint16 sum of the first k bytes of data
SumBytes(data, k) ==
    IF k <= 0 THEN 0 ELSE U16(SumBytes(data, k - 1) + data[k])

\* checksum(data) sums data[0 .. len-3] and compares with the word at 0x1e
checksum(data) == pmsa003i_word(data, ChecksumOffset) = SumBytes(data, Len(data) - 2)

\* checksum called on a slice of any length: data[0x1e] and data[0x1f] are
\* indexed whatever len(data) is, and a short slice ends the call in a panic;
\* the value returned is a one-element tuple holding the bool
checksumR(data) ==
    IF Len(data) < ChecksumOffset + 2 THEN Panicked(<<>>)
    ELSE R(<<>>, <<checksum(data)>>, "nil")

ZeroResults ==
    [CfPm1 |-> 0, CfPm2_5 |-> 0, CfPm10 |-> 0, EnvPm1 |-> 0, EnvPm2_5 |-> 0,
     EnvPm10 |-> 0, Cnt0_3 |-> 0, Cnt0_5 |-> 0, Cnt1 |-> 0, Cnt2_5 |-> 0,
     Cnt5 |-> 0, Cnt10 |-> 0, Version |-> 0]

DecodeMutVersionOffset(data) ==
    [CfPm1 |-> pmsa003i_word(data, 4), CfPm2_5 |-> pmsa003i_word(data, 6),
     CfPm10 |-> pmsa003i_word(data, 8), EnvPm1 |-> pmsa003i_word(data, 10),
     EnvPm2_5 |-> pmsa003i_word(data, 12), EnvPm10 |-> pmsa003i_word(data, 14),
     Cnt0_3 |-> pmsa003i_word(data, 16), Cnt0_5 |-> pmsa003i_word(data, 18),
     Cnt1 |-> pmsa003i_word(data, 20), Cnt2_5 |-> pmsa003i_word(data, 22),
     Cnt5 |-> pmsa003i_word(data, 24), Cnt10 |-> pmsa003i_word(data, 26),
     Version |-> data[30]]
Decode(data) ==
    [CfPm1 |-> pmsa003i_word(data, 4), CfPm2_5 |-> pmsa003i_word(data, 6), CfPm10 |-> pmsa003i_word(data, 8),
     EnvPm1 |-> pmsa003i_word(data, 10), EnvPm2_5 |-> pmsa003i_word(data, 12), EnvPm10 |-> pmsa003i_word(data, 14),
     Cnt0_3 |-> pmsa003i_word(data, 16), Cnt0_5 |-> pmsa003i_word(data, 18), Cnt1 |-> pmsa003i_word(data, 20),
     Cnt2_5 |-> pmsa003i_word(data, 22), Cnt5 |-> pmsa003i_word(data, 24), Cnt10 |-> pmsa003i_word(data, 26),
     Version |-> data[29]]

ReadSensorRMutChecksumFirst(o) ==
    LET evs == <<TxEv(PMSA003I_ADDR, <<>>, 32, o)>>
        data == o.r
    IN  IF ~o.ok THEN R(evs, ZeroResults, "Error while reading the sensor")
        ELSE IF ~checksum(data) THEN R(evs, ZeroResults, "Bad checksum")
        ELSE IF data[30] # 0 THEN R(evs, ZeroResults, "Error code")
        ELSE IF pmsa003i_word(data, 0) # StartWord THEN R(evs, ZeroResults, "Bad start word")
        ELSE R(evs, Decode(data), "nil")
ReadSensorR(o) ==
    LET evs == <<TxEv(PMSA003I_ADDR, <<>>, 32, o)>>
        data == o.r
    IN  IF ~o.ok THEN R(evs, ZeroResults, "Error while reading the sensor")
        ELSE IF pmsa003i_word(data, 0) # StartWord THEN R(evs, ZeroResults, "Bad start word")
        ELSE IF ~checksum(data) THEN R(evs, ZeroResults, "Bad checksum")
        ELSE IF data[30] # 0 THEN R(evs, ZeroResults, "Error code")
        ELSE R(evs, Decode(data), "nil")

\* New of package pmsa003i: one ReadSensor, whose result is dropped; the handle
\* (TRUE) or nil (FALSE)
pmsa003i_NewRMutChecksOnlyTransport(o) ==
    LET rs == ReadSensorR(o)
    IN  IF ~o.ok THEN R(rs.log, FALSE, rs.err)
        ELSE R(rs.log, TRUE, "nil")
pmsa003i_NewR(o) ==
    LET rs == ReadSensorR(o)
    IN  IF rs.err # "nil" THEN R(rs.log, FALSE, rs.err)
        ELSE R(rs.log, TRUE, "nil")

---------------------------------------------------------------------------
\* The inputs the environment can supply

Fail == [ok |-> FALSE, r |-> <<>>]
Ok(r) == [ok |-> TRUE, r |-> r]

\* a 16-bit word with its CRC-8 byte, and the same with one CRC bit flipped
Group(w) == <<w \div 256, w % 256, Checksum(<<w \div 256, w % 256>>)>>
BadGroup(w) == <<w \div 256, w % 256, Xor8(Checksum(<<w \div 256, w % 256>>), 1)>>

GoodSerialNumber == <<0, 0, 129, 1, 87, 156, 172, 162, 84>>
BadSerialNumber == <<0, 0, 0, 0, 0, 0, 0, 0, 0>>
GoodBaselineData == <<136, 161, 88, 141, 196, 97>>
BadBaselineData == <<0, 0, 0, 0, 0, 0>>
GoodFeaturesData == <<0, 34, 101>>
BadFeaturesData == <<0, 0, 0>>
GoodAirQualityData == <<1, 158, 83, 0, 13, 205>>
BadAirQualityData == <<0, 0, 0, 0, 0, 0>>

SerialReplies ==
    {GoodSerialNumber, BadSerialNumber,
     Group(1) \o Group(0) \o Group(0),
     Group(0) \o Group(256) \o Group(0),
     Group(43981) \o Group(4660) \o Group(65535),
     BadGroup(0) \o Group(343) \o Group(44194),
     Group(0) \o BadGroup(343) \o Group(44194),
     Group(0) \o Group(343) \o BadGroup(44194)}

FeaturesReplies == {GoodFeaturesData, BadFeaturesData, Group(290), BadGroup(34)}

AirQualityReplies ==
    {GoodAirQualityData, BadAirQualityData,
     Group(400) \o Group(0),
     BadGroup(414) \o Group(13),
     Group(414) \o BadGroup(13)}

BaselineReplies ==
    {GoodBaselineData, BadBaselineData,
     Group(4660) \o Group(172),
     BadGroup(34977) \o Group(36292),
     Group(34977) \o BadGroup(36292)}

SerialOutcomes == {Fail} \cup {Ok(r) : r \in SerialReplies}
FeaturesOutcomes == {Fail} \cup {Ok(r) : r \in FeaturesReplies}
AirQualityOutcomes == {Fail} \cup {Ok(r) : r \in AirQualityReplies}
BaselineOutcomes == {Fail} \cup {Ok(r) : r \in BaselineReplies}
\* a transaction with nothing to read
EmptyOutcomes == {Fail, Ok(<<>>)}

\* what a caller may hand to SetBaseline: slices of any length and capacity
BaselineArgs ==
    {Lit(b) : b \in BaselineReplies}
    \cup {Lit(<<>>), Lit(<<136, 161>>), Lit(<<136, 161, 88, 141, 196>>),
          Lit(<<0, 0, 0, 141>>),
          Lit(GoodBaselineData \o <<7>>),
          Slice(GoodBaselineData, 5),
          Slice(<<136, 161, 88, 0, 172, 0, 9>>, 5)}

\* what the calibration file may hold when the program starts
InitialFiles ==
    {NoFile, FileOf(GoodBaselineData), FileOf(BadBaselineData), FileOf(<<>>),
     FileOf(<<136, 161, 88, 0, 172>>),
     FileOf(GoodBaselineData \o <<7>>),
     FileOf(Group(34977) \o BadGroup(36292))}

\* ioutil.WriteFile's outcomes: the open fails, the write stops short, all 6 bytes land
WriteOutcomes == {-1, 3, 6}

Paths == {"", "p"}
Intervals == {0, MaxInterval}

GoodSensorData ==
    <<66, 77, 0, 28, 0, 0, 0, 1, 0, 5, 0, 0, 0, 1, 0, 5,
      0, 126, 0, 42, 0, 15, 0, 9, 0, 3, 0, 3, 151, 0, 2, 20>>
BadStartSensorData == [i \in 1..32 |-> 0]
BadChecksumSensorData == [i \in 1..32 |-> IF i = 1 THEN 66 ELSE IF i = 2 THEN 77 ELSE 0]
\* a 30-byte head completed with its arithmetic checksum
Framed(head) == head \o <<SumBytes(head, 30) \div 256, SumBytes(head, 30) % 256>>

\* frames with the start marker 42 4D and a zero checksum word: one whose bytes
\* 0..29 sum to 256, one whose bytes 2..29 are all FF
ZeroChecksum256 ==
    [i \in 1..32 |-> IF i = 1 THEN 66 ELSE IF i = 2 THEN 77 ELSE IF i = 3 THEN 113 ELSE 0]
ZeroChecksumMax ==
    [i \in 1..32 |-> IF i = 1 THEN 66 ELSE IF i = 2 THEN 77 ELSE IF i <= 30 THEN 255 ELSE 0]

SensorReplies ==
    {GoodSensorData, BadStartSensorData, BadChecksumSensorData,
     Framed([SubSeq(GoodSensorData, 1, 30) EXCEPT ![30] = 4]),
     Framed([SubSeq(GoodSensorData, 1, 30) EXCEPT ![1] = 67]),
     Framed([i \in 1..30 |-> IF i = 1 THEN 66 ELSE IF i = 2 THEN 77 ELSE 255]),
     [GoodSensorData EXCEPT ![30] = 4],
     [GoodSensorData EXCEPT ![1] = 0, ![30] = 4],
     ZeroChecksum256, ZeroChecksumMax}

SensorOutcomes == {Fail} \cup {Ok(r) : r \in SensorReplies}

\* slices handed to checksum directly: 2, 4, 32 and 34 bytes
ChecksumArgs ==
    {<<0, 0>>, <<0, 1, 0, 1>>, GoodSensorData, BadChecksumSensorData, ZeroChecksum256,
     \* 34 bytes whose last word is the sum of bytes 0..31
     GoodSensorData \o <<2, 42>>,
     \* 34 bytes whose word at 0x1e is the sum of bytes 0..31
     [i \in 1..34 |-> IF i = 1 THEN 1 ELSE IF i = 32 THEN 1 ELSE 0]}

\* buffers and offsets handed to word directly
WordArgs == {<<0, 1, 128, 10, 85, 170, 255, 127>>, <<255, 255>>, <<1, 0, 2>>}
Packages == {"pmsa003i", "sgp30"}

---------------------------------------------------------------------------
\* The state machine.  The caller is single-threaded: it makes one call, takes
\* what it returns, and goes on.

\* what the caller sees of a call: the operation, its arguments, what it
\* returned, and where the argument came from ("caller": the caller made it up)
Ret(op, arg, r) ==
    [op |-> op, arg |-> arg, err |-> r.err, val |-> r.val, panic |-> r.panic, from |-> "caller"]
Idle ==
    [op |-> "none", arg |-> <<>>, err |-> "nil", val |-> <<>>, panic |-> FALSE, from |-> "caller"]

\* an input the call does not get to consume is not enumerated
Used(c, S) == IF c THEN S ELSE {Fail}

Init ==
    /\ dev = NoDev
    /\ file \in InitialFiles
    /\ now = 0
    /\ pdev = FALSE
    /\ ret = Idle
    /\ log = <<>>

\* the caller takes the result of the call and goes on
Continue ==
    /\ ret # Idle
    /\ ret' = Idle
    /\ log' = <<>>
    /\ UNCHANGED <<dev, file, now, pdev>>

\* time passes between calls
Tick ==
    /\ ret = Idle
    /\ now < MaxTime
    /\ now' = now + 1
    /\ UNCHANGED <<dev, file, pdev, ret, log>>

New ==
    /\ ret = Idle
    /\ \E oSN \in SerialOutcomes, baselineFile \in Paths, baselineInterval \in Intervals :
       \E oSM \in Used(oSN.ok /\ baselineFile # "" /\ file.exists, EmptyOutcomes) :
       \E oSB \in Used(oSM \in EmptyOutcomes /\ oSN.ok /\ baselineFile # "" /\ file.exists,
                       EmptyOutcomes) :
       \E r \in {NewR(oSN, oSM, oSB, baselineFile, baselineInterval, file, now)} :
            /\ dev' = r.val
            /\ ret' = [Ret("New", [baselineFile |-> baselineFile,
                                      baselineInterval |-> baselineInterval], r)
                      EXCEPT !.val = <<>>]
            /\ log' = r.log
    /\ UNCHANGED <<file, now, pdev>>

Halt ==
    /\ ret = Idle
    /\ dev.has
    /\ ret' = Ret("Halt", <<>>, R(<<>>, <<>>, "nil"))
    /\ log' = <<>>
    /\ UNCHANGED <<dev, file, now, pdev>>

GetSerialNumber ==
    /\ ret = Idle
    /\ dev.has
    /\ \E o \in SerialOutcomes :
       \E r \in {GetSerialNumberR(o)} :
            ret' = Ret("GetSerialNumber", <<>>, r) /\ log' = r.log
    /\ UNCHANGED <<dev, file, now, pdev>>

GetFeatures ==
    /\ ret = Idle
    /\ dev.has
    /\ \E o \in FeaturesOutcomes :
       \E r \in {GetFeaturesR(o)} :
            ret' = Ret("GetFeatures", <<>>, r) /\ log' = r.log
    /\ UNCHANGED <<dev, file, now, pdev>>

StartMeasurements ==
    /\ ret = Idle
    /\ dev.has
    /\ \E o \in EmptyOutcomes :
       \E r \in {StartMeasurementsR(o)} :
            ret' = Ret("StartMeasurements", <<>>, r) /\ log' = r.log
    /\ UNCHANGED <<dev, file, now, pdev>>

ReadAirQuality ==
    /\ ret = Idle
    /\ dev.has
    /\ now + SleepTicks <= MaxTime
    /\ \E o1 \in EmptyOutcomes :
       \E o2 \in Used(o1.ok, AirQualityOutcomes) :
       \E oB \in Used(o2.ok, BaselineOutcomes) :
       \E n \in IF oB.ok THEN WriteOutcomes ELSE {-1} :
       \E r \in {ReadAirQualityR(dev, file, now, o1, o2, oB, n)} :
            /\ dev' = r.dev
            /\ file' = r.file
            /\ now' = r.now
            /\ ret' = Ret("ReadAirQuality", <<>>, r)
            /\ log' = r.log
    /\ UNCHANGED pdev

ReadBaseline ==
    /\ ret = Idle
    /\ dev.has
    /\ \E o \in BaselineOutcomes :
       \E r \in {ReadBaselineR(o)} :
            ret' = Ret("ReadBaseline", <<>>, r) /\ log' = r.log
    /\ UNCHANGED <<dev, file, now, pdev>>

SetBaseline ==
    /\ ret = Idle
    /\ dev.has
    /\ \E baseline \in BaselineArgs, oSM \in EmptyOutcomes, oSB \in EmptyOutcomes :
       \E r \in {SetBaselineR(baseline, oSM, oSB)} :
            ret' = Ret("SetBaseline", baseline, r) /\ log' = r.log
    /\ UNCHANGED <<dev, file, now, pdev>>

PmsaNew ==
    /\ ret = Idle
    /\ \E o \in SensorOutcomes :
       \E r \in {pmsa003i_NewR(o)} :
            /\ pdev' = r.val
            /\ ret' = [Ret("pmsa003i.New", <<>>, r) EXCEPT !.val = <<>>]
            /\ log' = r.log
    /\ UNCHANGED <<dev, file, now>>

PmsaReadSensor ==
    /\ ret = Idle
    /\ pdev
    /\ \E o \in SensorOutcomes :
       \E r \in {ReadSensorR(o)} :
            ret' = Ret("ReadSensor", <<>>, r) /\ log' = r.log
    /\ UNCHANGED <<dev, file, now, pdev>>

PmsaHalt ==
    /\ ret = Idle
    /\ pdev
    /\ ret' = Ret("pmsa003i.Halt", <<>>, R(<<>>, <<>>, "nil"))
    /\ log' = <<>>
    /\ UNCHANGED <<dev, file, now, pdev>>

\* the caller hands the array a successful ReadBaseline just returned to
\* SetBaseline, as b[:]
SetBaselineOfReadBaseline ==
    /\ ret.op = "ReadBaseline" /\ ret.err = "nil"
    /\ dev.has
    /\ \E oSM \in EmptyOutcomes, oSB \in EmptyOutcomes :
       \E r \in {SetBaselineR(Lit(ret.val), oSM, oSB)} :
            /\ ret' = [Ret("SetBaseline", Lit(ret.val), r) EXCEPT !.from = "ReadBaseline"]
            /\ log' = r.log
    /\ UNCHANGED <<dev, file, now, pdev>>

\* checksum of package pmsa003i called on its own, as its unit test does
PmsaChecksum ==
    /\ ret = Idle
    /\ \E data \in ChecksumArgs :
       \E r \in {checksumR(data)} :
            ret' = Ret("checksum", data, r) /\ log' = r.log
    /\ UNCHANGED <<dev, file, now, pdev>>

\* word of either package called on its own, as its unit test does
Word ==
    /\ ret = Idle
    /\ \E pkg \in Packages, data \in WordArgs :
       \E i \in 0..(Len(data) - 2) :
       \E v \in {IF pkg = "sgp30" THEN word(data, i) ELSE pmsa003i_word(data, i)} :
            ret' = Ret("word", [pkg |-> pkg, data |-> data, i |-> i], R(<<>>, <<v>>, "nil"))
    /\ log' = <<>>
    /\ UNCHANGED <<dev, file, now, pdev>>

Next ==
    \/ Continue
    \/ Tick
    \/ New
    \/ Halt
    \/ GetSerialNumber
    \/ GetFeatures
    \/ StartMeasurements
    \/ ReadAirQuality
    \/ ReadBaseline
    \/ SetBaseline
    \/ PmsaNew
    \/ PmsaReadSensor
    \/ PmsaHalt
    \/ SetBaselineOfReadBaseline
    \/ PmsaChecksum
    \/ Word

Spec == Init /\ [][Next]_vars

---------------------------------------------------------------------------
\* Vocabulary of the properties

\* CRC-8 as the data sheet defines it, bit by bit: polynomial 0x31, initial
\* value 0xFF, most significant bit first, no final XOR
RECURSIVE ShiftBits(_, _)
ShiftBits(crc, i) ==
    IF i = 0 THEN crc
    ELSE ShiftBits(IF crc >= 128 THEN Xor8((crc * 2) % 256, 49) ELSE (crc * 2) % 256, i - 1)

RECURSIVE Residue(_, _)
Residue(crc, data) ==
    IF data = <<>> THEN crc
    ELSE Residue(ShiftBits(Xor8(crc, Head(data)), 8), Tail(data))

\* a 3-byte group {data_hi, data_lo, crc} with zero residue
GroupValid(g) == Residue(255, g) = 0

\* every 3-byte group of a reply is valid
RECURSIVE GroupsValid(_)
GroupsValid(r) ==
    IF Len(r) < 3 THEN TRUE
    ELSE GroupValid(SubSeq(r, 1, 3)) /\ GroupsValid(SubSeq(r, 4, Len(r)))

IsTx(e) == e.kind = "tx"
IsReadBaselineTx(e) == e.kind = "tx" /\ e.w = <<32, 21>>
IsStartMeasurementsTx(e) == e.kind = "tx" /\ e.w = <<32, 3>>
IsSetBaselineTx(e) == e.kind = "tx" /\ Len(e.w) >= 2 /\ SubSeq(e.w, 1, 2) = <<32, 30>>
IsWrite(e) == e.kind = "write"
IsSince(e) == e.kind = "since"
Count(l, P(_)) == Len(SelectSeq(l, P))

\* the call returned, and returned no error
Succeeded == ~ret.panic /\ ret.err = "nil"
\* the call returned an error value
Failed == ~ret.panic /\ ret.err # "nil"

\* a step that is a call of ReadAirQuality
ReadAirQualityStep == ret = Idle /\ ret'.op = "ReadAirQuality"

\* the air-quality reply was received and both of its groups are valid
AirQualityReplyOk(l) ==
    /\ Len(l) >= 3
    /\ l[3].kind = "tx" /\ l[3].ok
    /\ GroupsValid(l[3].r)

\* the Read-Baseline reply of the call was received and both of its groups are valid
BaselineReplyOk(l) ==
    \E i \in 1..Len(l) : IsReadBaselineTx(l[i]) /\ l[i].ok /\ GroupsValid(l[i].r)

\* the autosave is due in the ReadAirQuality step: the reply is good, a path is
\* configured, and the time since the last save, taken after the delay, has
\* reached the interval
AutosaveIsDue ==
    /\ AirQualityReplyOk(log')
    /\ dev.baselineFile # ""
    /\ now' - dev.lastSave >= dev.baselineInterval

---------------------------------------------------------------------------
\* C1 as stated: within one ReadAirQuality call the Read-Baseline transaction and
\* the write of the calibration file each happen exactly once when the autosave
\* is due, and not at all otherwise.
C1_AutosaveOnceIffDue ==
    [][ReadAirQualityStep =>
        IF AutosaveIsDue
        THEN Count(log', IsReadBaselineTx) = 1 /\ Count(log', IsWrite) = 1
        ELSE Count(log', IsReadBaselineTx) = 0 /\ Count(log', IsWrite) = 0]_vars

\* C1 amended: within one ReadAirQuality call the Read-Baseline transaction is
\* issued exactly once when the autosave is due (equality of elapsed time and
\* interval counts as due) and not at all otherwise; the calibration file is
\* written exactly once, right after that transaction, when its reply is received
\* with both groups valid, and not at all otherwise.
C1_AutosaveReadOnceIffDue ==
    [][ReadAirQualityStep =>
        /\ Count(log', IsReadBaselineTx) = (IF AutosaveIsDue THEN 1 ELSE 0)
        /\ Count(log', IsWrite) = (IF AutosaveIsDue /\ BaselineReplyOk(log') THEN 1 ELSE 0)
        /\ Count(log', IsWrite) = 1 =>
              /\ IsWrite(log'[Len(log')])
              /\ IsReadBaselineTx(log'[Len(log') - 1])]_vars

\* an autosave that ran with the elapsed time equal to a positive interval
C1_Witness ==
    /\ ret.op = "ReadAirQuality"
    /\ Count(log, IsReadBaselineTx) = 1
    /\ Count(log, IsWrite) = 1
    /\ dev.baselineInterval > 0
    /\ \E i \in 1..Len(log) : IsSince(log[i]) /\ log[i].v = dev.baselineInterval

\* C2 as stated: the last-save timestamp moves only when the baseline has been
\* read and persisted; when the Read-Baseline of an autosave fails it is left
\* unchanged.
C2_LastSaveOnlyAfterSave ==
    [][ReadAirQualityStep =>
        /\ (Count(log', IsReadBaselineTx) = 1 /\ ~BaselineReplyOk(log')
               => dev'.lastSave = dev.lastSave)
        /\ (dev'.lastSave # dev.lastSave
               => \E i \in 1..Len(log') : IsWrite(log'[i]) /\ log'[i].n = Len(log'[i].data))]_vars

\* C3: when an autosave is due inside ReadAirQuality and reading the baseline
\* fails, the call returns an error with zero values and the file is not written;
\* when the baseline is read and the write of the file fails, the call returns
\* the decoded CO2 and TVOC values and no error.
C3_AutosaveErrors ==
    [][ReadAirQualityStep /\ Count(log', IsReadBaselineTx) = 1 =>
        /\ ~BaselineReplyOk(log') =>
              /\ ~ret'.panic /\ ret'.err # "nil" /\ ret'.val = <<0, 0>>
              /\ Count(log', IsWrite) = 0
              /\ file' = file
        /\ (\E i \in 1..Len(log') : IsWrite(log'[i]) /\ log'[i].n # Len(log'[i].data)) =>
              /\ ~ret'.panic /\ ret'.err = "nil"
              /\ ret'.val = <<log'[3].r[1] * 256 + log'[3].r[2],
                              log'[3].r[4] * 256 + log'[3].r[5]>>]_vars

\* the write of an autosave failed and the call returned values all the same
C3_Witness ==
    /\ ret.op = "ReadAirQuality"
    /\ \E i \in 1..Len(log) : IsWrite(log[i]) /\ log[i].n < Len(log[i].data)
    /\ Succeeded
    /\ ret.val = <<414, 13>>

\* the serial-number reply of New was received with all three groups valid
SerialReplyOk(l) == Len(l) >= 1 /\ IsTx(l[1]) /\ l[1].ok /\ GroupsValid(l[1].r)

\* the calibration file holds exactly 6 bytes, both groups valid
FileIsValidBaseline == Len(file.data) = 6 /\ GroupsValid(file.data)

\* C4 as stated: restore-on-construct with a configured path.  With no file New
\* succeeds and issues neither Start-Measurements nor Set-Baseline; with a file
\* that is not exactly 6 bytes or has a group failing CRC-8, New returns an error
\* and no handle.
C4_RestoreOnConstruct ==
    ret.op = "New" /\ ret.arg.baselineFile # "" /\ SerialReplyOk(log) =>
        /\ ~file.exists =>
              /\ Succeeded /\ dev.has
              /\ Count(log, IsStartMeasurementsTx) = 0
              /\ Count(log, IsSetBaselineTx) = 0
        /\ file.exists /\ ~FileIsValidBaseline => Failed /\ ~dev.has

\* C5 as stated: a successful GetSerialNumber returns w0*2^32 + w1*2^16 + w2 of
\* the reply's three data words (as 16-bit limbs, least significant first:
\* w2, w1, w0, 0).
C5_SerialNumberValue ==
    ret.op = "GetSerialNumber" /\ Succeeded =>
        LET r == log[1].r
        IN  ret.val = <<r[7] * 256 + r[8], r[4] * 256 + r[5], r[1] * 256 + r[2], 0>>

\* C6: for every 6-byte baseline b whose two groups pass CRC-8, SetBaseline
\* transmits, once and as its last transaction, the 8 bytes
\* 20 1E b[3] b[4] b[5] b[0] b[1] b[2] with a zero-length read to address 0x58.
C6_SetBaselineWire ==
    /\ ret.op = "SetBaseline" /\ ret.arg.len = 6
    /\ GroupValid(SubSeq(ret.arg.arr, 1, 3)) /\ GroupValid(SubSeq(ret.arg.arr, 4, 6))
    => LET b == ret.arg.arr
           e == log[Len(log)]
       IN  /\ Count(log, IsSetBaselineTx) = 1
           /\ e.kind = "tx"
           /\ e.addr = 88
           /\ e.w = <<32, 30, b[4], b[5], b[6], b[1], b[2], b[3]>>
           /\ e.rlen = 0

\* SetBaseline of the literal baseline 88 A1 58 8D C4 61 sent 20 1E 8D C4 61 88 A1 58
C6_Witness ==
    /\ ret.op = "SetBaseline"
    /\ ret.arg = Lit(<<136, 161, 88, 141, 196, 97>>)
    /\ Len(log) = 2
    /\ log[2].w = <<32, 30, 141, 196, 97, 136, 161, 88>>
    /\ Succeeded

\* C7: a baseline is accepted only if both of its groups pass CRC-8.
\* ReadBaseline returns an error and the all-zero value when a group of the reply
\* fails; SetBaseline of a baseline of two groups returns an error and issues no
\* bus transaction when a group of its argument fails; and what either accepts
\* has two valid groups.
C7_BothGroupsOrRejected ==
    /\ ret.op = "ReadBaseline" /\ log[1].ok /\ ~GroupsValid(log[1].r)
          => Failed /\ ret.val = <<0, 0, 0, 0, 0, 0>>
    /\ ret.op = "ReadBaseline" /\ Succeeded
          => ret.val = log[1].r /\ GroupsValid(SubSeq(ret.val, 1, 6))
    /\ (ret.op = "SetBaseline" /\ ret.arg.len >= 6
          /\ ~(GroupValid(SubSeq(ret.arg.arr, 1, 3)) /\ GroupValid(SubSeq(ret.arg.arr, 4, 6))))
          => Failed /\ log = <<>>
    /\ ret.op = "SetBaseline" /\ Count(log, IsTx) > 0
          => GroupValid(SubSeq(ret.arg.arr, 1, 3)) /\ GroupValid(SubSeq(ret.arg.arr, 4, 6))

\* SetBaseline refused a baseline whose second group alone fails, with no transaction
C7_Witness ==
    /\ ret.op = "SetBaseline" /\ ret.arg.len = 6
    /\ GroupValid(SubSeq(ret.arg.arr, 1, 3)) /\ ~GroupValid(SubSeq(ret.arg.arr, 4, 6))
    /\ Failed /\ log = <<>>

ReplyOps == {"GetSerialNumber", "GetFeatures", "ReadAirQuality", "ReadBaseline"}

\* every bus transaction of the call succeeded at the transport level
AllTxOk(l) == \A i \in 1..Len(l) : IsTx(l[i]) => l[i].ok

\* the reply of the operation itself: the first bytes the call read
RECURSIVE OwnReply(_)
OwnReply(l) ==
    IF l = <<>> THEN <<>>
    ELSE IF IsTx(Head(l)) /\ Head(l).rlen > 0 THEN Head(l).r
    ELSE OwnReply(Tail(l))

\* C8 as stated: given a successful transport, GetSerialNumber, GetFeatures,
\* ReadAirQuality and ReadBaseline succeed if and only if every 3-byte group of
\* the operation's reply has zero CRC-8 residue.
C8_SucceedsIffReplyValid ==
    ret.op \in ReplyOps /\ AllTxOk(log) =>
        /\ ~ret.panic
        /\ ret.err = "nil" <=> GroupsValid(OwnReply(log))

\* C8 amended: given a successful transport of every transaction of the call,
\* the operation succeeds if and only if every 3-byte group of every reply the
\* call read has zero CRC-8 residue; for ReadAirQuality these are the two groups
\* of the air-quality reply and, when an autosave runs, the two groups of the
\* Read-Baseline reply.  A single failing group makes the call return an error.
C8_SucceedsIffAllRepliesValid ==
    ret.op \in ReplyOps /\ AllTxOk(log) =>
        /\ ~ret.panic
        /\ ret.err = "nil" <=> \A i \in 1..Len(log) : IsTx(log[i]) => GroupsValid(log[i].r)

\* a ReadAirQuality whose air-quality reply is valid and whose Read-Baseline
\* reply has a failing group returned an error
C8_Witness ==
    /\ ret.op = "ReadAirQuality" /\ AllTxOk(log)
    /\ AirQualityReplyOk(log)
    /\ Count(log, IsReadBaselineTx) = 1
    /\ ~BaselineReplyOk(log)
    /\ Failed

\* C9 as stated: no public operation of either driver ends in a panic.
C9_NoPanic == ret.op # "checksum" => ~ret.panic

\* C10 as stated: a call in which a bus transaction failed at the transport
\* level returns an error.
C10_TransportFailureIsError ==
    (\E i \in 1..Len(log) : IsTx(log[i]) /\ ~log[i].ok) => Failed

---------------------------------------------------------------------------
\* Vocabulary of the particle-frame properties

\* the sum of bytes 0 .. k-1 of a frame, modulo 2^16
RECURSIVE SumTo(_, _)
SumTo(r, k) == IF k <= 0 THEN 0 ELSE (SumTo(r, k - 1) + r[k]) % 65536

\* the big-endian word at 0-based offset i of a frame
WordAt(r, i) == r[i + 1] * 256 + r[i + 2]

StartMarkerOk(r) == WordAt(r, 0) = 16973
\* a 32-byte frame the data sheet calls valid: start marker 42 4D, checksum word
\* at offset 30 equal to the sum of bytes 0..29, error byte at offset 29 zero
FrameValid(r) == StartMarkerOk(r) /\ WordAt(r, 30) = SumTo(r, 30) /\ r[30] = 0

AllZeroResult ==
    [CfPm1 |-> 0, CfPm2_5 |-> 0, CfPm10 |-> 0, EnvPm1 |-> 0, EnvPm2_5 |-> 0,
     EnvPm10 |-> 0, Cnt0_3 |-> 0, Cnt0_5 |-> 0, Cnt1 |-> 0, Cnt2_5 |-> 0,
     Cnt5 |-> 0, Cnt10 |-> 0, Version |-> 0]

\* C11: given a successful transport of a 32-byte frame, ReadSensor returns a
\* result if and only if the start marker is 0x424D, the checksum word at offset
\* 30 is the 16-bit sum of bytes 0..29 and the error byte at offset 29 is zero;
\* the fields are then the words at offsets 4..14 (concentrations), 16..26
\* (counts) and the byte at offset 28 (version).  In every other case it returns
\* an error and the all-zero result.
C11_ReadSensorIffFrameValid ==
    ret.op = "ReadSensor" /\ log[1].ok =>
        LET r == log[1].r
        IN  /\ ~ret.panic
            /\ Len(r) = 32
            /\ IF FrameValid(r)
               THEN /\ ret.err = "nil"
                    /\ ret.val =
                         [CfPm1 |-> WordAt(r, 4), CfPm2_5 |-> WordAt(r, 6),
                          CfPm10 |-> WordAt(r, 8), EnvPm1 |-> WordAt(r, 10),
                          EnvPm2_5 |-> WordAt(r, 12), EnvPm10 |-> WordAt(r, 14),
                          Cnt0_3 |-> WordAt(r, 16), Cnt0_5 |-> WordAt(r, 18),
                          Cnt1 |-> WordAt(r, 20), Cnt2_5 |-> WordAt(r, 22),
                          Cnt5 |-> WordAt(r, 24), Cnt10 |-> WordAt(r, 26),
                          Version |-> r[29]]
               ELSE ret.err # "nil" /\ ret.val = AllZeroResult

\* ReadSensor decoded the literal good frame: 126 particles > 0.3um, version 0x97
C11_Witness ==
    /\ ret.op = "ReadSensor" /\ log[1].ok
    /\ FrameValid(log[1].r)
    /\ Succeeded
    /\ ret.val.Cnt0_3 = 126 /\ ret.val.EnvPm2_5 = 1 /\ ret.val.Version = 151

\* C12 as stated: for a frame of any length N >= 2 the arithmetic checksum
\* validator returns, without faulting, whether the sum of bytes 0..N-3 modulo
\* 2^16 equals the big-endian word formed from bytes N-2 and N-1.
C12_ChecksumAnyLength ==
    ret.op = "checksum" =>
        LET N == Len(ret.arg)
        IN  /\ ~ret.panic
            /\ ret.val = <<SumTo(ret.arg, N - 2) = WordAt(ret.arg, N - 2)>>

---------------------------------------------------------------------------
\* C13: gas-driver construction issues its bus transactions in a fixed order.
\* The first is Get-Serial-Number (write 36 82, read 9); if it fails, in
\* transport or in a CRC-8 group, New returns an error and no handle and issues
\* no further transaction; if a path is configured and the file holds a valid
\* baseline, Start-Measurements (write 20 03, read 0) follows and only then
\* Set-Baseline (write 20 1E and 6 bytes, read 0); with no path configured the
\* serial-number transaction is the only one.
C13_NewTransactionOrder ==
    ret.op = "New" =>
        /\ Len(log) >= 1
        /\ log[1].kind = "tx" /\ log[1].addr = 88
        /\ log[1].w = <<54, 130>> /\ log[1].rlen = 9
        /\ ~SerialReplyOk(log) => Failed /\ ~dev.has /\ Len(log) = 1
        /\ (SerialReplyOk(log) /\ ret.arg.baselineFile # "" /\ file.exists /\ FileIsValidBaseline) =>
              /\ Len(log) = 3
              /\ log[2].kind = "tx" /\ log[2].addr = 88
              /\ log[2].w = <<32, 3>> /\ log[2].rlen = 0
              /\ log[3].kind = "tx" /\ log[3].addr = 88
              /\ Len(log[3].w) = 8 /\ SubSeq(log[3].w, 1, 2) = <<32, 30>> /\ log[3].rlen = 0
        /\ ret.arg.baselineFile = "" => Len(log) = 1

\* New restored a valid baseline: serial number, Start-Measurements, Set-Baseline
C13_Witness ==
    /\ ret.op = "New" /\ ret.arg.baselineFile # ""
    /\ file.exists /\ FileIsValidBaseline
    /\ Len(log) = 3
    /\ IsStartMeasurementsTx(log[2]) /\ IsSetBaselineTx(log[3])
    /\ Succeeded /\ dev.has

---------------------------------------------------------------------------
\* C14: particle-driver construction performs exactly one transaction (empty
\* write, 32-byte read, address 0x12) and validates the reply as ReadSensor
\* does: New returns a handle if and only if the transport succeeded and the
\* frame is one ReadSensor accepts; otherwise it returns an error and no handle.
C14_PmsaNewValidates ==
    ret.op = "pmsa003i.New" =>
        /\ ~ret.panic
        /\ Len(log) = 1
        /\ log[1].kind = "tx" /\ log[1].addr = 18
        /\ log[1].w = <<>> /\ log[1].rlen = 32
        /\ pdev <=> (log[1].ok /\ FrameValid(log[1].r))
        /\ pdev <=> ret.err = "nil"
        /\ pdev <=> ReadSensorR([ok |-> log[1].ok, r |-> log[1].r]).err = "nil"

\* New refused a frame that arrived intact on the bus but carries an error code
C14_Witness ==
    /\ ret.op = "pmsa003i.New"
    /\ log[1].ok
    /\ StartMarkerOk(log[1].r) /\ WordAt(log[1].r, 30) = SumTo(log[1].r, 30)
    /\ log[1].r[30] # 0
    /\ Failed /\ ~pdev

---------------------------------------------------------------------------
\* C15: ReadAirQuality follows the delayed two-step protocol in order: the write
\* of 20 08 with a zero-length read, the delay, a transaction with an empty
\* write and a 6-byte read, the CRC-8 validation of both groups, the autosave
\* check, the return of the values.  When the first transaction fails nothing
\* else happens; when the read fails or a group fails CRC-8 the autosave check
\* is not run.
C15_ReadAirQualityOrder ==
    ret.op = "ReadAirQuality" =>
        /\ Len(log) >= 1
        /\ log[1].kind = "tx" /\ log[1].addr = 88
        /\ log[1].w = <<32, 8>> /\ log[1].rlen = 0
        /\ ~log[1].ok => Len(log) = 1 /\ Failed /\ ret.val = <<0, 0>>
        /\ log[1].ok =>
              /\ Len(log) >= 3
              /\ log[2].kind = "sleep"
              /\ log[3].kind = "tx" /\ log[3].addr = 88
              /\ log[3].w = <<>> /\ log[3].rlen = 6
        /\ (log[1].ok /\ ~AirQualityReplyOk(log)) =>
              Len(log) = 3 /\ Failed /\ ret.val = <<0, 0>>
        /\ \A i \in 1..Len(log) :
              (IsSince(log[i]) \/ IsReadBaselineTx(log[i]) \/ IsWrite(log[i])) => i > 3
        /\ (AirQualityReplyOk(log) /\ dev.baselineFile # "") =>
              /\ Len(log) >= 4 /\ IsSince(log[4])
              /\ \A i \in 5..Len(log) : IsReadBaselineTx(log[i]) \/ IsWrite(log[i])
        /\ (AirQualityReplyOk(log) /\ dev.baselineFile = "") => Len(log) = 3 /\ Succeeded

\* a ReadAirQuality that went through every step: request, delay, read, the
\* clock read of the autosave check, and the return of the decoded values
C15_Witness ==
    /\ ret.op = "ReadAirQuality"
    /\ Len(log) = 4
    /\ log[1].ok /\ log[2].kind = "sleep" /\ log[3].ok /\ IsSince(log[4])
    /\ Succeeded /\ ret.val = <<400, 0>>

---------------------------------------------------------------------------
ReadOps == {"ReadSensor", "ReadAirQuality", "GetFeatures", "ReadBaseline"}

\* C16 as stated: a per-read failure (particle: bad start marker, bad checksum,
\* nonzero error code; gas: a CRC-8 group failure in ReadAirQuality, GetFeatures
\* or ReadBaseline) leaves the state of the driver handle unchanged, so that the
\* next call behaves as if the failed call had never happened.
C16_FailedReadLeavesHandle ==
    [][(ret = Idle /\ ret'.op \in ReadOps /\ AllTxOk(log') /\ ~ret'.panic /\ ret'.err # "nil")
          => dev' = dev /\ pdev' = pdev]_vars

---------------------------------------------------------------------------
\* the two 3-byte groups of a 6-byte payload, exchanged
SwapGroups(p) == SubSeq(p, 4, 6) \o SubSeq(p, 1, 3)

\* C17: baseline round trip.  For every 6-byte reply R that ReadBaseline
\* accepts, handing ReadBaseline's output unchanged to SetBaseline is accepted
\* by the CRC-8 validation and transmits 20 1E R[3..5] R[0..2]; exchanging the
\* two groups of the transmitted payload again gives exactly R.
C17_BaselineRoundTrip ==
    [][(ret.op = "ReadBaseline" /\ ret'.op = "SetBaseline") =>
        LET Rep == log[1].r
            e == log'[Len(log')]
        IN  /\ log[1].ok /\ GroupsValid(Rep)
            /\ ret'.arg.arr = Rep /\ ret'.arg.len = 6
            /\ ~ret'.panic
            /\ Len(log') = 2
            /\ e.kind = "tx" /\ e.rlen = 0
            /\ e.w = <<32, 30, Rep[4], Rep[5], Rep[6], Rep[1], Rep[2], Rep[3]>>
            /\ SwapGroups(SubSeq(e.w, 3, 8)) = Rep
            /\ ret'.err = "nil" <=> e.ok]_vars

\* the baseline 12 34 with CRC, 00 AC with CRC, read from the sensor and handed
\* back to it
C17_Witness ==
    /\ ret.op = "SetBaseline" /\ ret.from = "ReadBaseline"
    /\ ret.arg.arr = <<18, 52>> \o <<Residue(255, <<18, 52>>)>> \o <<0, 172, 0>>
    /\ Len(log) = 2
    /\ SubSeq(log[2].w, 3, 5) = <<0, 172, 0>>
    /\ SwapGroups(SubSeq(log[2].w, 3, 8)) = ret.arg.arr
    /\ Succeeded

---------------------------------------------------------------------------
\* C18: for every byte buffer b and every offset i with i+1 inside the buffer,
\* word(b, i) is b[i]*256 + b[i+1], big-endian and below 2^16, in the particle
\* package and in the gas package.
C18_WordBigEndian ==
    ret.op = "word" =>
        LET b == ret.arg.data
            i == ret.arg.i
        IN  /\ ~ret.panic
            /\ ret.val = <<b[i + 1] * 256 + b[i + 2]>>
            /\ ret.val[1] < 65536

\* word of the unit test's buffer at offset 6 is 0xFF7F, in the particle package
C18_Witness ==
    /\ ret.op = "word"
    /\ ret.arg = [pkg |-> "pmsa003i", data |-> <<0, 1, 128, 10, 85, 170, 255, 127>>, i |-> 6]
    /\ ret.val = <<65407>>

---------------------------------------------------------------------------
\* C19: on a successful ReadAirQuality with the 6-byte reply r, the CO2 value
\* returned is the big-endian word r[0], r[1] and the TVOC value is the
\* big-endian word r[3], r[4]; the CRC bytes r[2] and r[5] are part of neither,
\* and it makes no difference whether an autosave ran during the call.
C19_AirQualityValues ==
    ret.op = "ReadAirQuality" /\ Succeeded =>
        LET r == log[3].r
        IN  /\ Len(r) = 6
            /\ ret.val = <<r[1] * 256 + r[2], r[4] * 256 + r[5]>>

\* the literal reply 01 9E 53 00 0D CD decoded as 414 ppm and 13 ppb in a call
\* that also saved the baseline
C19_Witness ==
    /\ ret.op = "ReadAirQuality" /\ Succeeded
    /\ log[3].r = <<1, 158, 83, 0, 13, 205>>
    /\ ret.val = <<414, 13>>
    /\ \E i \in 1..Len(log) : IsWrite(log[i]) /\ log[i].n = 6
    /\ file.data = log[5].r

---------------------------------------------------------------------------
\* C20: a particle frame whose start marker differs from 0x424D is rejected by
\* the start-marker validation and reported as a bad start word, whether or not
\* its checksum matches and whatever its error byte is; the all-zero frame,
\* whose arithmetic checksum matches, fails as a start-marker failure.
C20_BadStartReportedFirst ==
    (ret.op \in {"ReadSensor", "pmsa003i.New"} /\ log[1].ok /\ ~StartMarkerOk(log[1].r)) =>
        /\ Failed
        /\ ret.err = "Bad start word"
        /\ ret.op = "ReadSensor" => ret.val = AllZeroResult
        /\ ret.op = "pmsa003i.New" => ~pdev

\* the all-zero frame, whose checksum matches, was refused for its start word
C20_Witness ==
    /\ ret.op = "ReadSensor" /\ log[1].ok
    /\ \A i \in 1..32 : log[1].r[i] = 0
    /\ WordAt(log[1].r, 30) = SumTo(log[1].r, 30)
    /\ ret.err = "Bad start word"

---------------------------------------------------------------------------
\* C21: every 32-byte particle frame with the start marker 42 4D and a checksum
\* word equal to zero fails the checksum validation, whatever bytes 2..29 hold
\* (the 16-bit sum of bytes 0..29 never wraps around to zero), and ReadSensor
\* reports it as a bad checksum.
C21_ZeroChecksumFails ==
    /\ (ret.op = "ReadSensor" /\ log[1].ok
          /\ StartMarkerOk(log[1].r) /\ WordAt(log[1].r, 30) = 0) =>
              /\ SumTo(log[1].r, 30) # 0
              /\ Failed /\ ret.err = "Bad checksum" /\ ret.val = AllZeroResult
    /\ (ret.op = "checksum" /\ Len(ret.arg) = 32
          /\ StartMarkerOk(ret.arg) /\ WordAt(ret.arg, 30) = 0) =>
              ~ret.panic /\ ret.val = <<FALSE>>

\* a frame whose bytes 0..29 sum to 0x0100, low byte zero, was refused for its
\* checksum
C21_Witness ==
    /\ ret.op = "ReadSensor" /\ log[1].ok
    /\ StartMarkerOk(log[1].r) /\ WordAt(log[1].r, 30) = 0
    /\ SumTo(log[1].r, 30) = 256
    /\ ret.err = "Bad checksum"

---------------------------------------------------------------------------
\* the most bus transactions one call of an operation may issue; ReadAirQuality
\* issues a third one only when an autosave runs
TxBound(op) ==
    CASE op \in {"ReadSensor", "GetSerialNumber", "GetFeatures", "StartMeasurements",
                 "ReadBaseline"} -> 1
      [] op = "SetBaseline" -> 2
      [] op = "ReadAirQuality" -> 3
      [] OTHER -> 0

BoundedOps ==
    {"ReadSensor", "GetSerialNumber", "GetFeatures", "StartMeasurements", "ReadBaseline",
     "SetBaseline", "ReadAirQuality"}

\* C22: no operation retries.  Within one call no command is written to the bus
\* more than once and no read is repeated, so the number of bus transactions of
\* a call is at most 1 for ReadSensor, GetSerialNumber, GetFeatures,
\* StartMeasurements and ReadBaseline, 2 for SetBaseline, and 2 for
\* ReadAirQuality plus 1 when an autosave runs, whatever errors occur.
C22_NoRetry ==
    ret.op \in BoundedOps =>
        /\ Count(log, IsTx) <= TxBound(ret.op)
        /\ (ret.op = "ReadAirQuality" /\ Count(log, IsTx) = 3)
              => Count(log, IsReadBaselineTx) = 1
        /\ (ret.op = "ReadAirQuality" /\ Count(log, IsReadBaselineTx) = 0)
              => Count(log, IsTx) <= 2
        /\ \A i, j \in 1..Len(log) :
              (i < j /\ IsTx(log[i]) /\ IsTx(log[j])) => log[i].w # log[j].w

\* a ReadAirQuality whose third transaction, the Read-Baseline of the autosave,
\* failed on the bus and was not tried again
C22_Witness ==
    /\ ret.op = "ReadAirQuality"
    /\ Count(log, IsTx) = 3
    /\ IsReadBaselineTx(log[Len(log)]) /\ ~log[Len(log)].ok
    /\ Failed

---------------------------------------------------------------------------
FrameOps ==
    {"GetSerialNumber", "GetFeatures", "StartMeasurements", "ReadBaseline", "SetBaseline",
     "Halt"}

\* a step in which the caller calls operation op on the handle it holds
CallOf(op) == ret' # ret /\ ret'.op = op

\* C23: after construction the gas driver handle is changed only by the
\* save-interval check inside ReadAirQuality.  GetSerialNumber, GetFeatures,
\* StartMeasurements, ReadBaseline, SetBaseline and Halt leave the path, the
\* interval and the last-save timestamp as they are; no operation on the handle
\* changes the path or the interval; and ReadAirQuality changes the timestamp
\* only in a call whose autosave branch was entered.
C23_HandleFrame ==
    [][/\ (\E op \in FrameOps : CallOf(op)) => dev' = dev
       /\ ~CallOf("New") =>
              /\ dev'.has = dev.has
              /\ dev'.baselineFile = dev.baselineFile
              /\ dev'.baselineInterval = dev.baselineInterval
       /\ (dev'.lastSave # dev.lastSave /\ ~CallOf("New")) =>
              /\ CallOf("ReadAirQuality")
              /\ Count(log', IsSince) = 1
              /\ Count(log', IsReadBaselineTx) = 1]_vars

\* a ReadAirQuality moved the last-save timestamp of a handle with a positive
\* interval, and left the path and the interval alone
C23_Witness ==
    /\ ret.op = "ReadAirQuality"
    /\ Count(log, IsReadBaselineTx) = 1
    /\ dev.has /\ dev.baselineFile = "p" /\ dev.baselineInterval = MaxInterval
    /\ dev.lastSave = now /\ now >= MaxInterval

---------------------------------------------------------------------------
\* the calibration file is one the autosave wrote: it exists and is none of the
\* files the program may have started with
FileWrittenByDriver == file.exists /\ file \notin InitialFiles

\* C24 as stated: over any sequence of driver operations, what the autosave
\* writes to the calibration file is exactly the 6 bytes a successful
\* Read-Baseline returned, in read order, both groups valid; so a later New with
\* the same path never fails restore-on-construct on a file this driver wrote,
\* and transmits that file's groups exchanged in Set-Baseline.
C24_AutosavedFileRestores ==
    /\ \A i \in 1..Len(log) : IsWrite(log[i]) =>
          /\ i > 1 /\ IsReadBaselineTx(log[i - 1]) /\ log[i - 1].ok
          /\ log[i].data = log[i - 1].r
          /\ Len(log[i].data) = 6 /\ GroupsValid(log[i].data)
    /\ (ret.op = "New" /\ ret.arg.baselineFile # "" /\ SerialReplyOk(log)
          /\ FileWrittenByDriver) =>
          /\ ~ret.panic
          /\ Len(log) = 3
          /\ IsStartMeasurementsTx(log[2])
          /\ IsSetBaselineTx(log[3])
          /\ log[3].w = <<32, 30>> \o SwapGroups(file.data)
          /\ log[3].ok => Succeeded /\ dev.has

====
